---- MODULE Spec2Model ----
(***************************************************************************)
(* A model of the toy RSA implementation of src/main.go: key generation    *)
(* (GenerateKeysPair, genPrime, multInverse), the randomized padding codec *)
(* (Encrypt, Decrypt, hash1, hash2, expMod), the driver main() and the     *)
(* tests of the test file (src/unnamed/part_000).                          *)
(*                                                                         *)
(* Go's int is taken to be the 64-bit int of the usual build: every value  *)
(* the model computes stays below 2^63, so no operation of the program     *)
(* wraps.  TLC's own integers are 32 bits wide, which is why a product     *)
(* that is reduced modulo m is computed by MulMod.                         *)
(***************************************************************************)
EXTENDS Integers, Sequences, FiniteSets, TLC

VARIABLES
    pc,          \* position of the driver / test / call being modelled
    keyP, keyQ,  \* GenerateKeysPair: the primes p and q
    private,     \* PrivateKey{n, d}
    public,      \* PublicKey{n, e}
    err,         \* GenerateKeysPair: the returned error ("" is nil)
    plaintext,   \* the string given to Encrypt, as its bytes
    pads,        \* the values rand.Intn returned inside the first Encrypt call
    ciphertext,  \* result of the first Encrypt call
    pads2,       \* the values rand.Intn returned inside the second Encrypt call
    ciphertext2, \* result of the second Encrypt call (TestEncryptRandomized)
    decrypted,   \* result of Decrypt, as its bytes
    gpMin, gpMax,\* arguments of the genPrime call
    gpRes,       \* result of the genPrime call
    miA, miB,    \* arguments of the multInverse call
    miRes        \* result of the multInverse call: <<gcd, lx, ly>>

vars == <<pc, keyP, keyQ, private, public, err, plaintext, pads, ciphertext,
          pads2, ciphertext2, decrypted, gpMin, gpMax, gpRes, miA, miB, miRes>>

keyVars == <<keyP, keyQ, private, public, err>>
codecVars == <<plaintext, pads, ciphertext, pads2, ciphertext2, decrypted>>
primeVars == <<gpMin, gpMax, gpRes>>
inverseVars == <<miA, miB, miRes>>

(***************************************************************************)
(* Bounds of the model.                                                    *)
(***************************************************************************)
\* longest plaintext given to Encrypt
MaxLen == 2
\* how many of the lowest values of rand.Intn a prime search may start from
DrawSpan == 6
\* how many of the lowest values of rand.Intn a pad may take (the highest
\* value is always among the draws)
PadSpan == 5
\* largest min and max given to genPrime when it is called on its own
MaxRange == 48
\* largest |a| and |b| given to multInverse when it is called on its own
MaxAbs == 12

(***************************************************************************)
(* Program constants.                                                      *)
(***************************************************************************)
PrimeMin == 100
PrimeMax == 10000
PadIntn == 255
Hash1Mul == 69
Hash2Mul == 59
TestPrivateFirst == 65473
TestPrivateSecond == 75827
TestPublicFirst == 75827
TestPublicSecond == 60457

TestPlaintext ==
    <<78, 101, 113, 117, 101, 32, 112, 111, 114, 114, 111, 32, 113, 117, 105,
      115, 113, 117, 97, 109, 32, 101, 115, 116, 44, 32, 113, 117, 105, 32,
      100, 111, 108, 111, 114, 101, 109, 32, 105, 112, 115, 117, 109, 32, 113,
      117, 105, 97, 32, 100, 111, 108, 111, 114, 32, 115, 105, 116, 32, 97,
      109, 101, 116, 44, 32, 99, 111, 110, 115, 101, 99, 116, 101, 116, 117,
      114, 44, 32, 97, 100, 105, 112, 105, 115, 99, 105, 32, 118, 101, 108,
      105, 116, 44, 32, 115, 101, 100, 32, 113, 117, 105, 97, 32, 110, 111,
      110, 32, 110, 117, 109, 113, 117, 97, 109, 32, 101, 105, 117, 115, 32,
      109, 111, 100, 105, 32, 116, 101, 109, 112, 111, 114, 97, 32, 105, 110,
      99, 105, 100, 117, 110, 116, 32, 117, 116, 32, 108, 97, 98, 111, 114,
      101, 32, 101, 116, 32, 100, 111, 108, 111, 114, 101, 32, 109, 97, 103,
      110, 97, 109, 32, 97, 108, 105, 113, 117, 97, 109, 32, 113, 117, 97,
      101, 114, 97, 116, 32, 118, 111, 108, 117, 112, 116, 97, 116, 101, 109>>

(***************************************************************************)
(* Integer and byte arithmetic of Go.                                      *)
(***************************************************************************)
Abs(v) == IF v < 0 THEN -v ELSE v

\* a / b of Go: the quotient truncated toward zero (b # 0)
Quo(a, b) ==
    IF (a >= 0) = (b >= 0) THEN Abs(a) \div Abs(b) ELSE -(Abs(a) \div Abs(b))

\* a % b of Go: the remainder has the sign of a (b # 0)
Rem(a, b) == a - b * Quo(a, b)

\* byte(v) for v >= 0: the low 8 bits
ToByte(v) == v % 256

\* x ^ y on non-negative integers
RECURSIVE Xor(_, _)
Xor(x, y) ==
    IF x = 0 THEN y
    ELSE IF y = 0 THEN x
    ELSE 2 * Xor(x \div 2, y \div 2) + ((x + y) % 2)

\* x | y on non-negative integers
RECURSIVE Or(_, _)
Or(x, y) ==
    IF x = 0 THEN y
    ELSE IF y = 0 THEN x
    ELSE 2 * Or(x \div 2, y \div 2) + (IF x % 2 = 1 \/ y % 2 = 1 THEN 1 ELSE 0)

\* (x * y) % m for x, y >= 0 and m > 0, the product taken exactly as Go's
\* 64-bit int holds it: y is split into 8-bit digits so that no intermediate
\* value leaves the range of the model checker's integers.
RECURSIVE MulMod(_, _, _)
MulMod(x, y, m) ==
    IF y < 256 THEN (x * y) % m
    ELSE (MulMod(x, y \div 256, m) * 256 + x * (y % 256)) % m

\* rand.Intn(n): the values it may return (it panics when n <= 0)
Intn(n) == 0..(n - 1)

(***************************************************************************)
(* hash1, hash2 (src/main.go:96-113): x is a byte, x *= c wraps at 8 bits. *)
(***************************************************************************)
hash1(x) ==
    LET x1 == Xor(x, x \div 16)
        x2 == ToByte(x1 * Hash1Mul)
        x3 == Xor(x2, x2 \div 16)
        x4 == ToByte(x3 * Hash1Mul)
    IN  Xor(x4, x4 \div 16)

hash2(x) ==
    LET x1 == Xor(x, x \div 16)
        x2 == ToByte(x1 * Hash2Mul)
        x3 == Xor(x2, x2 \div 16)
        x4 == ToByte(x3 * Hash2Mul)
    IN  Xor(x4, x4 \div 16)

(***************************************************************************)
(* expMod (src/main.go:116-129).                                           *)
(***************************************************************************)
RECURSIVE expModLoop(_, _, _, _)
expModLoop(res, base, exp, mod) ==
    IF exp > 0
    THEN IF exp % 2 = 1
         THEN expModLoop(MulMod(res, base, mod), base, exp - 1, mod)
         ELSE expModLoop(res, MulMod(base, base, mod), exp \div 2, mod)
    ELSE res

expMod(base, exp, mod) == expModLoop(1, base, exp, mod)

(***************************************************************************)
(* multInverse (src/main.go:133-155): <<gcd, lx, ly>>.                     *)
(***************************************************************************)
RECURSIVE multInverseLoop(_, _, _, _, _, _)
multInverseLoop(a, b, x, y, lx, ly) ==
    IF b # 0
    THEN LET q == Quo(a, b)
         IN  multInverseLoop(b, Rem(a, b), lx - q * x, ly - q * y, x, y)
    ELSE <<a, lx, ly>>

\* the loop with x, lx = lx-q*x, x (and y, ly) assigned one after the other
RECURSIVE multInverseLoopSequential(_, _, _, _, _, _)
multInverseLoopSequential(a, b, x, y, lx, ly) ==
    IF b # 0
    THEN LET q == Quo(a, b)
         IN  multInverseLoopSequential(b, Rem(a, b), lx - q * x, ly - q * y,
                                       lx - q * x, ly - q * y)
    ELSE <<a, lx, ly>>

multInverseSequential(a, b) ==
    LET r == multInverseLoopSequential(a, b, 0, 1, 1, 0)
    IN  <<r[1],
          IF r[2] < 0 THEN r[2] + b ELSE r[2],
          IF r[3] < 0 THEN r[3] + a ELSE r[3]>>

multInverse(a, b) ==
    LET r == multInverseLoop(a, b, 0, 1, 1, 0)
    IN  <<r[1],
          IF r[2] < 0 THEN r[2] + b ELSE r[2],
          IF r[3] < 0 THEN r[3] + a ELSE r[3]>>

(***************************************************************************)
(* genPrime (src/main.go:159-189).                                         *)
(*                                                                         *)
(* The sieve is held as the set of the indices i with sieve[i] = 1.  A for *)
(* loop over lo..hi runs its first half, then its second half: the tests   *)
(* `1 \in first` (sieve[1] is set before the loops start) make the model   *)
(* checker finish the first half before it starts the second.              *)
(***************************************************************************)
\* one iteration of the outer loop: skip a marked i, else mark 2i, 3i, ...
SieveBody(marked, i, max) ==
    IF i \in marked THEN marked
    ELSE marked \cup {i * k : k \in 2..(max \div i)}

RECURSIVE SieveLoop(_, _, _, _)
SieveLoop(marked, lo, hi, max) ==
    IF lo > hi THEN marked
    ELSE IF lo = hi THEN SieveBody(marked, lo, max)
    ELSE LET first == SieveLoop(marked, lo, (lo + hi) \div 2, max)
         IN  IF 1 \in first
             THEN SieveLoop(first, ((lo + hi) \div 2) + 1, hi, max)
             ELSE first

\* the outer loop started at 3 instead of 2
SieveFromThree(max) == SieveLoop({1}, 3, (max \div 2) + 1, max)

\* the indices marked 1 once the sieve is built
Sieve(max) == SieveLoop({1}, 2, (max \div 2) + 1, max)

\* the search loop, from its i-th iteration on
RECURSIVE Search(_, _, _, _, _)
Search(marked, x, i, min, max) ==
    IF x + i <= max \/ x - i >= min
    THEN IF x + i <= max /\ (x + i) \notin marked THEN x + i
         ELSE IF x - i >= min /\ (x - i) \notin marked THEN x - i
         ELSE Search(marked, x, i + 1, min, max)
    ELSE -1

\* genPrime panics: make([]int8, max+1) with max+1 < 0, sieve[1] out of
\* range, or rand.Intn of a non-positive number
genPrimePanics(min, max) == max + 1 < 2 \/ max - min + 1 <= 0

\* the values genPrime(min, max) returns when rand.Intn returns a value of
\* rnd (a subset of Intn(max - min + 1)); 0 <= min, and no panic
genPrime(min, max, rnd) ==
    LET marked == Sieve(max)
    IN  {Search(marked, r + min, 0, min, max) : r \in rnd}

(***************************************************************************)
(* Encrypt (src/main.go:50-70) and Decrypt (src/main.go:74-87).            *)
(***************************************************************************)
\* the shift done on the byte: int(a << 8) | int(b)
PackByteShift(a, b) == Or(ToByte(a * 256), b)

\* (int(a) << 8) | int(b)
Pack(a, b) == Or(a * 256, b)

\* the body of Encrypt's loop for plaintext byte p, rand.Intn having
\* returned rnd
EncryptByte(p, rnd, publicKey) ==
    LET r == ToByte(rnd)
        a == Xor(hash1(r), p)
        b == Xor(hash2(a), r)
        t == Pack(a, b)
    IN  expMod(t, publicKey.e, publicKey.n)

\* Encrypt, rand.Intn returning rnds[1], rnds[2], ... in turn
RECURSIVE EncryptLoop(_, _, _, _, _)
EncryptLoop(res, text, rnds, k, publicKey) ==
    IF k > Len(text) THEN res
    ELSE EncryptLoop(Append(res, EncryptByte(text[k], rnds[k], publicKey)),
                     text, rnds, k + 1, publicKey)

Encrypt(text, publicKey, rnds) == EncryptLoop(<<>>, text, rnds, 1, publicKey)

\* the body of Decrypt's loop for ciphertext integer c
DecryptInt(c, privateKey) ==
    LET t == expMod(c, privateKey.d, privateKey.n)
        a == ToByte(t \div 256)
        b == ToByte(t) % 256
        r == Xor(hash2(a), b)
    IN  Xor(hash1(r), a)

RECURSIVE DecryptLoop(_, _, _, _)
DecryptLoop(buf, text, k, privateKey) ==
    IF k > Len(text) THEN buf
    ELSE DecryptLoop(Append(buf, DecryptInt(text[k], privateKey)),
                     text, k + 1, privateKey)

Decrypt(text, privateKey) == DecryptLoop(<<>>, text, 1, privateKey)

(***************************************************************************)
(* Inputs.                                                                 *)
(***************************************************************************)
\* the sequences of n values of S
RECURSIVE SeqsOf(_, _)
SeqsOf(S, n) ==
    IF n = 0 THEN {<<>>}
    ELSE {Append(s, v) : s \in SeqsOf(S, n - 1), v \in S}

\* printable ASCII bytes a plaintext is made of: ' ' and '~', the lowest and
\* the highest
Alphabet == {32, 126}

\* the plaintexts given to Encrypt by the driver
Plaintexts == UNION {SeqsOf(Alphabet, n) : n \in 0..MaxLen}

\* the plaintexts of the tests: the non-empty beginnings of the test string
TestPlaintexts == {SubSeq(TestPlaintext, 1, n) : n \in 1..MaxLen}

\* the values of rand.Intn(n) a prime search of GenerateKeysPair starts from
KeyDraws(n) == {r \in Intn(n) : r < DrawSpan}

\* the values of rand.Intn(255) a pad of Encrypt is taken from
PadDraws == {r \in Intn(PadIntn) : r < PadSpan \/ (r + 1) \notin Intn(PadIntn)}

\* the bytes r := byte(rand.Intn(255)) can be
PadBytes == {ToByte(r) : r \in Intn(PadIntn)}

ZeroPrivateKey == [n |-> 0, d |-> 0]
ZeroPublicKey == [n |-> 0, e |-> 0]

\* the state before anything ran
Idle ==
    /\ keyP = 0 /\ keyQ = 0
    /\ private = ZeroPrivateKey /\ public = ZeroPublicKey
    /\ err = ""
    /\ plaintext = <<>> /\ pads = <<>> /\ ciphertext = <<>>
    /\ pads2 = <<>> /\ ciphertext2 = <<>> /\ decrypted = <<>>
    /\ gpMin = 0 /\ gpMax = 0 /\ gpRes = 0
    /\ miA = 0 /\ miB = 0 /\ miRes = <<0, 0, 0>>

(***************************************************************************)
(* The driver, main() (src/main.go:191-209): GenerateKeysPair, Encrypt,    *)
(* Decrypt.  GenerateKeysPair is taken in the three steps that draw a      *)
(* random number.                                                          *)
(***************************************************************************)
Init ==
    /\ pc = "GenerateKeysPair"
    /\ Idle

\* p := genPrime(100, 10000)
GenerateP ==
    /\ pc = "GenerateKeysPair"
    /\ \E v \in genPrime(PrimeMin, PrimeMax, KeyDraws(PrimeMax - PrimeMin + 1)) :
          keyP' = v
    /\ pc' = "GenerateQ"
    /\ UNCHANGED <<keyQ, private, public, err, codecVars, primeVars, inverseVars>>

\* q := genPrime(100, 10000)
GenerateQ ==
    /\ pc = "GenerateQ"
    /\ \E v \in genPrime(PrimeMin, PrimeMax, KeyDraws(PrimeMax - PrimeMin + 1)) :
          keyQ' = v
    /\ pc' = "GenerateE"
    /\ UNCHANGED <<keyP, private, public, err, codecVars, primeVars, inverseVars>>

\* the rest of GenerateKeysPair: the check of p and q, n, phi, e, d
GenerateE ==
    /\ pc = "GenerateE"
    /\ IF keyP < 0 \/ keyQ < 0
       THEN /\ err' = "Failed to generate prime numbers"
            /\ pc' = "failed"
            /\ UNCHANGED <<private, public>>
       ELSE LET n == keyP * keyQ
                phi == (keyP - 1) * (keyQ - 1)
                min == (n \div 3) + 1
            IN  \E e \in genPrime(min, phi, KeyDraws(phi - min + 1)) :
                   IF e < 0
                   THEN /\ err' = "Failed to generate public e"
                        /\ pc' = "failed"
                        /\ UNCHANGED <<private, public>>
                   ELSE /\ private' = [n |-> n, d |-> multInverse(e, phi)[2]]
                        /\ public' = [n |-> n, e |-> e]
                        /\ pc' = "Encrypt"
                        /\ UNCHANGED err
    /\ UNCHANGED <<keyP, keyQ, codecVars, primeVars, inverseVars>>

\* ciphertext := Encrypt(original_plaintext, public)
MainEncrypt ==
    /\ pc = "Encrypt"
    /\ \E s \in Plaintexts : \E rnds \in SeqsOf(PadDraws, Len(s)) :
          /\ plaintext' = s
          /\ pads' = rnds
          /\ ciphertext' = Encrypt(s, public, rnds)
    /\ pc' = "Decrypt"
    /\ UNCHANGED <<keyVars, pads2, ciphertext2, decrypted, primeVars, inverseVars>>

\* decrypted_plaintext := Decrypt(ciphertext, private)
MainDecrypt ==
    /\ pc = "Decrypt"
    /\ decrypted' = Decrypt(ciphertext, private)
    /\ pc' = "done"
    /\ UNCHANGED <<keyVars, plaintext, pads, ciphertext, pads2, ciphertext2,
                   primeVars, inverseVars>>

Next == GenerateP \/ GenerateQ \/ GenerateE \/ MainEncrypt \/ MainDecrypt

Spec == Init /\ [][Next]_vars

(***************************************************************************)
(* TestEncryptDecrypt and TestEncryptRandomized (src/unnamed/part_000:9-32)*)
(* The literals PrivateKey{65473, 75827} and PublicKey{75827, 60457} set   *)
(* the fields in the order they are declared: n, d and n, e.               *)
(***************************************************************************)
TestPrivateKey == [n |-> TestPrivateFirst, d |-> TestPrivateSecond]
TestPublicKey == [n |-> TestPublicFirst, e |-> TestPublicSecond]

InitTest ==
    /\ pc \in {"TestEncryptDecrypt", "TestEncryptRandomized"}
    /\ keyP = 0 /\ keyQ = 0
    /\ private = IF pc = "TestEncryptDecrypt" THEN TestPrivateKey ELSE ZeroPrivateKey
    /\ public = TestPublicKey
    /\ err = ""
    /\ plaintext \in TestPlaintexts
    /\ pads = <<>> /\ ciphertext = <<>>
    /\ pads2 = <<>> /\ ciphertext2 = <<>> /\ decrypted = <<>>
    /\ gpMin = 0 /\ gpMax = 0 /\ gpRes = 0
    /\ miA = 0 /\ miB = 0 /\ miRes = <<0, 0, 0>>

\* ciphertext := Encrypt(plaintext, public); ciphertext1 := ... in the second test
TestEncrypt ==
    /\ pc \in {"TestEncryptDecrypt", "TestEncryptRandomized"}
    /\ \E rnds \in SeqsOf(PadDraws, Len(plaintext)) :
          /\ pads' = rnds
          /\ ciphertext' = Encrypt(plaintext, public, rnds)
    /\ pc' = IF pc = "TestEncryptDecrypt" THEN "TestDecrypt" ELSE "TestEncryptAgain"
    /\ UNCHANGED <<keyVars, plaintext, pads2, ciphertext2, decrypted,
                   primeVars, inverseVars>>

\* decrypted_plaintext := Decrypt(ciphertext, private)
TestDecrypt ==
    /\ pc = "TestDecrypt"
    /\ decrypted' = Decrypt(ciphertext, private)
    /\ pc' = "TestEncryptDecryptDone"
    /\ UNCHANGED <<keyVars, plaintext, pads, ciphertext, pads2, ciphertext2,
                   primeVars, inverseVars>>

\* ciphertext2 := Encrypt(plaintext, public)
TestEncryptAgain ==
    /\ pc = "TestEncryptAgain"
    /\ \E rnds \in SeqsOf(PadDraws, Len(plaintext)) :
          /\ pads2' = rnds
          /\ ciphertext2' = Encrypt(plaintext, public, rnds)
    /\ pc' = "TestEncryptRandomizedDone"
    /\ UNCHANGED <<keyVars, plaintext, pads, ciphertext, decrypted,
                   primeVars, inverseVars>>

NextTest == TestEncrypt \/ TestDecrypt \/ TestEncryptAgain

SpecTest == InitTest /\ [][NextTest]_vars

(***************************************************************************)
(* A call of genPrime(min, max), as the tests Test_genPrime_small and      *)
(* Test_genPrime_big make it (src/unnamed/part_000:43-69).                 *)
(***************************************************************************)
InitPrime ==
    /\ pc = "genPrime"
    /\ gpMin \in 0..MaxRange /\ gpMax \in 0..MaxRange /\ gpRes = 0
    /\ keyP = 0 /\ keyQ = 0
    /\ private = ZeroPrivateKey /\ public = ZeroPublicKey
    /\ err = ""
    /\ plaintext = <<>> /\ pads = <<>> /\ ciphertext = <<>>
    /\ pads2 = <<>> /\ ciphertext2 = <<>> /\ decrypted = <<>>
    /\ miA = 0 /\ miB = 0 /\ miRes = <<0, 0, 0>>

CallGenPrime ==
    /\ pc = "genPrime"
    /\ IF genPrimePanics(gpMin, gpMax)
       THEN /\ pc' = "panic"
            /\ UNCHANGED gpRes
       ELSE /\ \E v \in genPrime(gpMin, gpMax, Intn(gpMax - gpMin + 1)) : gpRes' = v
            /\ pc' = "returned"
    /\ UNCHANGED <<gpMin, gpMax, keyVars, codecVars, inverseVars>>

NextPrime == CallGenPrime

SpecPrime == InitPrime /\ [][NextPrime]_vars

(***************************************************************************)
(* A call of multInverse(a, b).                                            *)
(***************************************************************************)
InitInverse ==
    /\ pc = "multInverse"
    /\ miA \in (-MaxAbs)..MaxAbs /\ miB \in (-MaxAbs)..MaxAbs /\ miRes = <<0, 0, 0>>
    /\ keyP = 0 /\ keyQ = 0
    /\ private = ZeroPrivateKey /\ public = ZeroPublicKey
    /\ err = ""
    /\ plaintext = <<>> /\ pads = <<>> /\ ciphertext = <<>>
    /\ pads2 = <<>> /\ ciphertext2 = <<>> /\ decrypted = <<>>
    /\ gpMin = 0 /\ gpMax = 0 /\ gpRes = 0

CallMultInverse ==
    /\ pc = "multInverse"
    /\ miRes' = multInverse(miA, miB)
    /\ pc' = "inverted"
    /\ UNCHANGED <<miA, miB, keyVars, codecVars, primeVars>>

NextInverse == CallMultInverse

SpecInverse == InitInverse /\ [][NextInverse]_vars

(***************************************************************************)
(* Properties.                                                             *)
(***************************************************************************)
\* v is prime: not 0 or 1, and no divisor d with 2 <= d <= sqrt(v)
IsPrime(v) == v >= 2 /\ \A d \in 2..v : d * d <= v => v % d # 0

\* the greatest common divisor of a and b, not both 0
Gcd(a, b) ==
    CHOOSE g \in 1..(Abs(a) + Abs(b)) :
        /\ Abs(a) % g = 0 /\ Abs(b) % g = 0
        /\ \A h \in (g + 1)..(Abs(a) + Abs(b)) : Abs(a) % h # 0 \/ Abs(b) % h # 0

\* GenerateKeysPair has returned a key pair and no error
KeysGenerated == pc \in {"Encrypt", "Decrypt", "done"}

\* C1 (round trip): once the driver has generated a key pair, encrypted a
\* printable-ASCII plaintext under the public key and decrypted the result
\* under the private key, the decrypted bytes are the plaintext, whatever
\* primes, exponent and pads were drawn.
C1_RoundTrip == pc = "done" => decrypted = plaintext

\* C2 (fixed test vector): TestEncryptDecrypt, with PrivateKey{65473, 75827}
\* and PublicKey{75827, 60457}, decrypts to the string it encrypted, whatever
\* pads were drawn.
C2_TestVector == pc = "TestEncryptDecryptDone" => decrypted = plaintext

\* C3 (randomized padding): under the test key (n = 75827 > 65535,
\* e = 60457), two Encrypt calls on the same non-empty plaintext that drew a
\* different pad at some position return different ciphertext sequences.
C3_RandomizedPadding ==
    (pc = "TestEncryptRandomizedDone" /\ public.n > 65535 /\ pads # pads2)
        => ciphertext # ciphertext2

\* C3 happens: the two calls agree on the first pad, differ on the second,
\* and so do the ciphertexts.
C3_Witness ==
    /\ pc = "TestEncryptRandomizedDone"
    /\ Len(plaintext) = 2
    /\ pads[1] = pads2[1] /\ pads[2] # pads2[2]
    /\ ciphertext[1] = ciphertext2[1] /\ ciphertext[2] # ciphertext2[2]

\* C4 (key validity): for every generated key pair, p = q included,
\* expMod(expMod(t, e, n), d, n) = t for every t in 0..65535 below n.
C4_KeyValidity ==
    pc = "Encrypt" =>
        \A t \in 0..65535 :
            t < public.n =>
                expMod(expMod(t, public.e, public.n), private.d, private.n) = t

\* C5 (primality): a non-negative value genPrime(min, max) returns, for
\* 0 < min <= max and any random start, is prime.
C5_Primality ==
    (pc = "returned" /\ 0 < gpMin /\ gpMin <= gpMax /\ gpRes >= 0)
        => IsPrime(gpRes)

\* C5 happens: genPrime(8, 12) returned 11, the only prime of the range,
\* which most starts reach only by searching outward.
C5_Witness == pc = "returned" /\ gpMin = 8 /\ gpMax = 12 /\ gpRes = 11

\* C6 (boundary): genPrime(min, max) with min > max, or with no prime in
\* min..max, returns -1 and does not panic.
C6_Boundary ==
    (pc # "genPrime" /\ (gpMin > gpMax \/ \A v \in gpMin..gpMax : ~IsPrime(v)))
        => (pc = "returned" /\ gpRes = -1)

\* C7 (extended Euclid): for nonzero a and b, multInverse(a, b) returns
\* <<g, x, y>> with g = gcd(a, b) and x*a + y*b = g.
C7_ExtendedEuclid ==
    (pc = "inverted" /\ miA # 0 /\ miB # 0)
        => /\ miRes[1] = Gcd(miA, miB)
           /\ miRes[2] * miA + miRes[3] * miB = miRes[1]

\* C8 (exponent invariant): for every generated key pair, with
\* phi = (p-1)*(q-1), (e * d) mod phi = 1 and 0 < d < phi.
C8_ExponentInvariant ==
    KeysGenerated =>
        LET phi == (keyP - 1) * (keyQ - 1)
        IN  /\ MulMod(public.e, private.d, phi) = 1
            /\ 0 < private.d /\ private.d < phi

\* C8 happens: a key pair was generated from two different primes.
C8_Witness ==
    /\ pc = "Encrypt" /\ keyP # keyQ
    /\ public.n = keyP * keyQ /\ private.n = public.n
    /\ public.e > 1 /\ private.d > 1

\* C9 (modulus bound): every generated key pair has a modulus above 65535.
C9_ModulusBound == KeysGenerated => public.n > 65535

\* C10 (pad range): every byte value 0..255, 255 included, is a value the
\* pad r := byte(rand.Intn(255)) of an Encrypt call can take.
C10_PadRange == pc = "Decrypt" => \A v \in 0..255 : v \in PadBytes

====
